---- MODULE Spec2Model ----
(***************************************************************************)
(* A model of print_team.py: the CSV load, the URL interpreter, the        *)
(* Entrez fetch, the GC statistic and the per-member report, as the        *)
(* sequence of print calls and Entrez.efetch calls a run makes.            *)
(***************************************************************************)
EXTENDS Integers, Sequences, FiniteSets, TLC

VARIABLES
    file,       \* team.csv as it lies on disk (the input of the run)
    df,         \* main's local df: None before the load and after a failed one
    pc,         \* main's position: "start", "loop", "done", "crashed"
    i,          \* main's loop index (0-based, as range(len(df)))
    out,        \* the lines printed so far, one entry per print call
    requests,   \* the Entrez.efetch calls issued so far
    replies,    \* what the remote service answered to each of them
    arg,        \* the argument of the pure function under check
    ret         \* its result, once applied

vars == <<file, df, pc, i, out, requests, replies, arg, ret>>

\* ---------------------------------------------------------------- values

\* Python's None, and a present optional value.
None == <<>>
Some(x) == <<x>>

\* A value held in a DataFrame cell or a local: a str, or the float nan that
\* pandas.read_csv stores for an empty field.
Str(s) == [type |-> "str", v |-> s]
NaN == [type |-> "float", v |-> "nan"]

\* bool(x) of such a value: nan is a non-zero float, the empty str is falsy.
Truthy(x) == IF x.type = "float" THEN TRUE ELSE x.v # ""

\* str(x), as an f-string renders it.
Format(x) == IF x.type = "float" THEN "nan" ELSE x.v

\* `x or d`.
Or(x, d) == IF Truthy(x) THEN x ELSE d

\* ------------------------------------------------------------------ URLs

\* A URL string, by its parts: whether the text /nuccore/ occurs in its path,
\* the text that follows (up to the ? or the end), and the query as the
\* key=value pairs between the & separators. A value is a sequence of
\* characters.
AccessionTexts == {"", "NC_000010.11"}
QueryKeys == {"from", "to", "db"}
QueryValues == {<<>>, <<"5">>, <<"1", "5">>, <<"x">>, <<"5", "x">>}
MaxParams == 2
Url(nuccore, rest, query) == [nuccore |-> nuccore, rest |-> rest, query |-> query]

\* re.search(r"/nuccore/([^?]+)", url): the marker followed by at least one
\* character other than ?; group(1) is that text, verbatim.
re_search(url) ==
    IF url.nuccore /\ url.rest # "" THEN Some(url.rest) ELSE None

\* urllib.parse.parse_qs(query): a dict from each key to the list of its
\* values in order of appearance; blank values are dropped, and so is a key
\* left with no value.
parse_qs(query) ==
    LET kept(k) == SelectSeq(query, LAMBDA p : p[1] = k /\ p[2] # <<>>)
        keys == {query[j][1] : j \in {n \in 1..Len(query) : query[n][2] # <<>>}}
    IN  [k \in keys |-> [j \in 1..Len(kept(k)) |-> kept(k)[j][2]]]

\* int(s) of a str: a ValueError unless s is a decimal literal.
Digit(c) == CASE c = "1" -> 1 [] c = "5" -> 5 [] OTHER -> -1
IsIntLiteral(s) == Len(s) > 0 /\ \A k \in 1..Len(s) : Digit(s[k]) >= 0
RECURSIVE IntOf(_)
IntOf(s) == IF Len(s) = 0 THEN 0
            ELSE 10 * IntOf(SubSeq(s, 1, Len(s) - 1)) + Digit(s[Len(s)])

\* parse_url(url): the tuple (accession, start, end), or the exception that
\* leaves the function. re.search raises TypeError on a float; int raises
\* ValueError on a value that is no integer literal. `from` is converted
\* before `to`.
Returned(acc, start, end) ==
    [exc |-> "", accession |-> acc, start |-> start, end |-> end]
Raised(e) == [exc |-> e, accession |-> None, start |-> None, end |-> None]

parse_url(url) ==
    IF url.type # "str" THEN Raised("TypeError")
    ELSE LET accession == re_search(url.v)
             qs == parse_qs(url.v.query)
             hasFrom == "from" \in DOMAIN qs
             hasTo == "to" \in DOMAIN qs
         IN  IF hasFrom /\ ~IsIntLiteral(qs["from"][1]) THEN Raised("ValueError")
             ELSE IF hasTo /\ ~IsIntLiteral(qs["to"][1]) THEN Raised("ValueError")
             ELSE Returned(accession,
                           IF hasFrom THEN Some(IntOf(qs["from"][1])) ELSE None,
                           IF hasTo THEN Some(IntOf(qs["to"][1])) ELSE None)

\* ----------------------------------------------------------- printed lines

\* One print call: what it prints (kind), the text and the number it carries.
Line(kind, text, num) == [kind |-> kind, text |-> text, num |-> num]
Rule == Line("rule", <<>>, 0)
Blank == Line("blank", <<>>, 0)

\* The lines of one loop iteration, marked with the 1-based member number.
Tag(lines, member) ==
    [j \in 1..Len(lines) |->
        [rec |-> member, kind |-> lines[j].kind, text |-> lines[j].text,
         num |-> lines[j].num]]

\* ------------------------------------------------------------ the CSV file

OptionalColumns == {"github_url", "linkedin_url"}

\* read_csv_data(filename): pandas.read_csv in a try block. A field left empty
\* in the file is read as nan, any other as the str it holds. On an exception
\* a diagnostic is printed and None returned.
FieldValue(cell) == IF cell = None THEN NaN ELSE Str(cell[1])

read_csv_data(f) ==
    IF ~f.readable
    THEN [printed |-> <<Line("csv_error", <<>>, 0)>>, value |-> None]
    ELSE [printed |-> <<>>,
          value |-> Some([columns |-> f.columns,
                          rows |-> [j \in 1..Len(f.rows) |->
                              [url |-> FieldValue(f.rows[j].url),
                               github_url |-> FieldValue(f.rows[j].github_url),
                               linkedin_url |-> FieldValue(f.rows[j].linkedin_url)]]])]

\* --------------------------------------------------------------- the fetch

\* fetch_dna_sequence(accession, start, end), given the answer `reply` of the
\* remote service to the one Entrez.efetch call: the arguments of the call,
\* the lines printed and the SeqRecord returned (None on any exception of
\* efetch or SeqIO.read).
fetch_args_or(accession, start, end) ==
    IF start # None \/ end # None
    THEN [db |-> "nuccore", id |-> accession, rettype |-> "fasta",
          retmode |-> "text", seq_start |-> start, seq_stop |-> end]
    ELSE [db |-> "nuccore", id |-> accession, rettype |-> "fasta",
          retmode |-> "text"]

fetch_args(accession, start, end) ==
    IF start # None /\ end # None
    THEN [db |-> "nuccore", id |-> accession, rettype |-> "fasta",
          retmode |-> "text", seq_start |-> start, seq_stop |-> end]
    ELSE [db |-> "nuccore", id |-> accession, rettype |-> "fasta",
          retmode |-> "text"]

fetch_dna_sequence_placeholder(accession, start, end, reply) ==
    [args |-> fetch_args(accession, start, end),
     printed |-> IF reply.ok THEN <<>>
                 ELSE <<Line("fetch_error", <<>>, 0),
                        Line("fetch_error_detail", <<>>, 0)>>,
     result |-> Some([id |-> reply.id, seq |-> reply.seq])]

fetch_dna_sequence(accession, start, end, reply) ==
    [args |-> fetch_args(accession, start, end),
     printed |-> IF reply.ok THEN <<>>
                 ELSE <<Line("fetch_error", <<>>, 0),
                        Line("fetch_error_detail", <<>>, 0)>>,
     result |-> IF reply.ok THEN Some([id |-> reply.id, seq |-> reply.seq])
                ELSE None]

\* ------------------------------------------------------------ GC content

\* str.upper() and str.count(ch) on a sequence of characters.
UpperChar(c) ==
    CASE c = "g" -> "G" [] c = "c" -> "C" [] c = "a" -> "A" [] c = "t" -> "T"
      [] c = "n" -> "N" [] OTHER -> c
upper(s) == [k \in 1..Len(s) |-> UpperChar(s[k])]
count(s, ch) == Cardinality({k \in 1..Len(s) : s[k] = ch})

\* gc_content(seq_str): the percentage as the exact quotient num / den.
gc_content_case_sensitive(seq_str) ==
    IF Len(seq_str) = 0 THEN [num |-> 0, den |-> 1]
    ELSE [num |-> (count(seq_str, "G") + count(seq_str, "C")) * 100,
          den |-> Len(seq_str)]

gc_content(seq_str) ==
    LET seq == upper(seq_str)
    IN  IF Len(seq) = 0 THEN [num |-> 0, den |-> 1]
        ELSE [num |-> (count(seq, "G") + count(seq, "C")) * 100,
              den |-> Len(seq)]

\* f"{gc_pct:.2f}": the percentage rounded to hundredths, in hundredths.
Format2f(q) == (2 * 100 * q.num + q.den) \div (2 * q.den)

\* -------------------------------------------------------------- the report

\* print_summary(...): the identity block and the two contact links.
print_summary(github_url, linkedin_url) ==
    <<Rule,
      Line("Name", <<>>, 0),
      Line("Slack user", <<>>, 0),
      Line("Country", <<>>, 0),
      Line("Hobby", <<>>, 0),
      Line("Affiliations", <<>>, 0),
      Blank,
      Line("GitHub URL", <<Format(Or(github_url, Str("N/A")))>>, 0),
      Line("LinkedIn URL", <<Format(Or(linkedin_url, Str("N/A")))>>, 0),
      Blank>>

preview_len == 60

\* dna_str[:preview_len] + (marker if len(dna_str) > preview_len else ""),
\* the marker being the one character U+2026 (horizontal ellipsis).
Ellipsis == "U+2026"
preview_no_marker(dna_str) ==
    SubSeq(dna_str, 1, IF Len(dna_str) < preview_len THEN Len(dna_str) ELSE preview_len)

preview(dna_str) ==
    SubSeq(dna_str, 1, IF Len(dna_str) < preview_len THEN Len(dna_str) ELSE preview_len)
    \o (IF Len(dna_str) > preview_len THEN <<Ellipsis>> ELSE <<>>)

\* The sequence section printed after a successful fetch.
sequence_lines(seq_record) ==
    LET dna_str == seq_record.seq
    IN  <<Line("DNA (FASTA header)", <<seq_record.id>>, 0),
          Line("Length", <<>>, Len(dna_str)),
          Line("First bases", <<>>, preview_len),
          Line("preview", preview(dna_str), 0),
          Line("GC content", <<>>, Format2f(gc_content(dna_str))),
          Rule,
          Blank>>

\* process_team_member(df, i), given the answer the remote service would give:
\* the lines printed, the efetch calls made, the exception that leaves the
\* function (if any) and the value returned.
process_team_member(frame, idx, reply) ==
    LET row == frame.rows[idx + 1]
        github_url == IF "github_url" \in frame.columns
                      THEN row.github_url ELSE Str("")
        linkedin_url == IF "linkedin_url" \in frame.columns
                        THEN row.linkedin_url ELSE Str("")
        summary == print_summary(github_url, linkedin_url)
        parsed == parse_url(row.url)
    IN  IF parsed.exc # ""
        THEN [printed |-> summary, calls |-> <<>>, answers |-> <<>>,
              exc |-> parsed.exc, value |-> None]
        ELSE IF parsed.accession = None \/ parsed.accession = Some("")
        THEN [printed |-> summary \o <<Line("skip", <<>>, 0)>>,
              calls |-> <<>>, answers |-> <<>>, exc |-> "", value |-> Some(FALSE)]
        ELSE LET f == fetch_dna_sequence(parsed.accession[1], parsed.start,
                                         parsed.end, reply)
             IN  IF f.result = None
                 THEN [printed |-> summary \o f.printed,
                       calls |-> <<f.args>>, answers |-> <<reply>>,
                       exc |-> "", value |-> Some(FALSE)]
                 ELSE [printed |-> summary \o sequence_lines(f.result[1]),
                       calls |-> <<f.args>>, answers |-> <<reply>>,
                       exc |-> "", value |-> Some(TRUE)]

\* ------------------------------------------------------------ run inputs

\* The URL cells of the roster: no accession; an accession and no range; an
\* accession and a range; an accession and `from` alone; an accession and a
\* `from` that is no integer; and the cell left empty.
RosterUrls ==
    {Url(FALSE, "", <<>>),
     Url(TRUE, "NC_000010.11", <<>>),
     Url(TRUE, "NC_000010.11", <<<<"from", <<"5">>>>, <<"to", <<"1", "5">>>>>>),
     Url(TRUE, "NC_000010.11", <<<<"from", <<"5">>>>>>),
     Url(TRUE, "NC_000010.11", <<<<"from", <<"x">>>>, <<"to", <<"1", "5">>>>>>)}
UrlCells == {None} \cup {Some(u) : u \in RosterUrls}
GithubCells == {None, Some("https://github.com/u")}
LinkedinCells == {None, Some("https://linkedin.com/in/u")}

MaxRecords == 2

\* The rows of the roster: every URL cell with the contact links filled in,
\* and every filling of the contact links with the plain accession URL. A
\* column that the file lacks has no cell in any row. The required columns
\* (name, username, country, hobby, affiliations, url) are in every file.
Cells(columns, column, cells) == IF column \in columns THEN cells ELSE {None}
RosterRows(columns) ==
    [url : UrlCells,
     github_url : Cells(columns, "github_url", GithubCells \ {None}),
     linkedin_url : Cells(columns, "linkedin_url", LinkedinCells \ {None})]
    \cup
    [url : {Some(Url(TRUE, "NC_000010.11", <<>>))},
     github_url : Cells(columns, "github_url", GithubCells),
     linkedin_url : Cells(columns, "linkedin_url", LinkedinCells)]

Unreadable == [readable |-> FALSE, columns |-> {}, rows |-> <<>>]

\* The bases of a sequence string, and the strings gc_content is applied to.
Bases == {"G", "C", "g", "c", "A", "t", "N"}
MaxSeqLen == 4

\* Fetched sequences of every length up to MaxDnaLen, the base at each
\* position fixed by the position.
MaxDnaLen == 100
BaseAt(k) == CASE k % 4 = 0 -> "A" [] k % 4 = 1 -> "C" [] k % 4 = 2 -> "G"
               [] OTHER -> "T"
DnaString(n, m, o) == [k \in 1..n |-> BaseAt(k * m + o)]

\* What the remote service may answer: a failure of the request or of the
\* parse, or one FASTA record.
Replies ==
    {[ok |-> FALSE, id |-> "", seq |-> <<>>],
     [ok |-> TRUE, id |-> "NC_000010.11", seq |-> <<"g", "c", "A", "T">>],
     [ok |-> TRUE, id |-> "NC_000010.11", seq |-> [k \in 1..(preview_len + 1) |-> BaseAt(k)]]}

\* ------------------------------------------------------------------ main

\* The first statements of main(): the load, the return on a failed load, the
\* run-level header otherwise.
main_read_no_return ==
    /\ pc = "start"
    /\ LET r == read_csv_data(file)
       IN  /\ df' = r.value
           /\ IF r.value = None
              THEN /\ out' = out \o Tag(r.printed \o <<Rule>>, 0)
                   /\ pc' = "crashed"
              ELSE /\ out' = out \o Tag(r.printed \o
                        <<Rule, Line("header", <<>>, Len(r.value[1].rows)), Rule>>, 0)
                   /\ pc' = "loop"
    /\ i' = 0
    /\ UNCHANGED <<file, requests, replies, arg, ret>>

main_read ==
    /\ pc = "start"
    /\ LET r == read_csv_data(file)
       IN  /\ df' = r.value
           /\ IF r.value = None
              THEN /\ out' = out \o Tag(r.printed, 0)
                   /\ pc' = "done"
              ELSE /\ out' = out \o Tag(r.printed \o
                        <<Rule, Line("header", <<>>, Len(r.value[1].rows)), Rule>>, 0)
                   /\ pc' = "loop"
    /\ i' = 0
    /\ UNCHANGED <<file, requests, replies, arg, ret>>

\* One iteration of main's loop: the progress line and process_team_member.
\* An exception leaving process_team_member is caught nowhere: it ends the run.
main_iter ==
    /\ pc = "loop"
    /\ i < Len(df[1].rows)
    /\ \E reply \in Replies :
         LET r == process_team_member(df[1], i, reply)
             progress == Line("progress", <<>>, i + 1)
         IN  /\ out' = out \o Tag(<<progress>> \o r.printed, i + 1)
             /\ requests' = requests \o
                    [j \in 1..Len(r.calls) |-> [rec |-> i + 1, args |-> r.calls[j]]]
             /\ replies' = replies \o
                    [j \in 1..Len(r.answers) |->
                        [rec |-> i + 1, ok |-> r.answers[j].ok,
                         id |-> r.answers[j].id, seq |-> r.answers[j].seq]]
             /\ IF r.exc # ""
                THEN pc' = "crashed" /\ i' = i
                ELSE pc' = "loop" /\ i' = i + 1
    /\ UNCHANGED <<file, df, arg, ret>>

\* The loop is exhausted: main returns.
main_return ==
    /\ pc = "loop"
    /\ i = Len(df[1].rows)
    /\ pc' = "done"
    /\ UNCHANGED <<file, df, i, out, requests, replies, arg, ret>>

Init ==
    /\ \/ file = Unreadable
       \/ \E c \in SUBSET OptionalColumns, n \in 0..MaxRecords :
             \E r \in [1..n -> RosterRows(c)] :
                file = [readable |-> TRUE, columns |-> c, rows |-> r]
    /\ df = None
    /\ pc = "start"
    /\ i = 0
    /\ out = <<>>
    /\ requests = <<>>
    /\ replies = <<>>
    /\ arg = None
    /\ ret = None

Next == main_read \/ main_iter \/ main_return

Spec == Init /\ [][Next]_vars

\* ------------------------------------------- the pure functions, one by one

Idle ==
    /\ file = Unreadable
    /\ df = None
    /\ pc = "done"
    /\ i = 0
    /\ out = <<>>
    /\ requests = <<>>
    /\ replies = <<>>
    /\ ret = None

Apply(result) ==
    /\ ret = None
    /\ ret' = Some(result)
    /\ UNCHANGED <<file, df, pc, i, out, requests, replies, arg>>

\* parse_url on every URL string of the bounded set.
InitUrl ==
    /\ Idle
    /\ \E nuccore \in BOOLEAN, rest \in AccessionTexts, n \in 0..MaxParams :
          \E query \in [1..n -> QueryKeys \X QueryValues] :
             arg = Str(Url(nuccore, rest, query))
call_parse_url == Apply(parse_url(arg))
SpecUrl == InitUrl /\ [][call_parse_url]_vars

\* gc_content on every sequence string of the bounded set.
InitGc ==
    /\ Idle
    /\ \E n \in 0..MaxSeqLen : arg \in [1..n -> Bases]
call_gc_content == Apply(gc_content(arg))
SpecGc == InitGc /\ [][call_gc_content]_vars

\* The preview line on every fetched sequence of the bounded set.
InitPreview ==
    /\ Idle
    /\ \E n \in 0..MaxDnaLen, m \in 1..3, o \in 0..1 : arg = DnaString(n, m, o)
call_preview == Apply(preview(arg))
SpecPreview == InitPreview /\ [][call_preview]_vars

\* ------------------------------------------------------------- properties

Terminated == pc \in {"done", "crashed"}
Members == IF df = None THEN {} ELSE 1..Len(df[1].rows)

\* The members whose process_team_member call has returned.
Completed == {m \in Members : m <= i}

KindsOf(m, kinds) ==
    LET ls == SelectSeq(out, LAMBDA l : l.rec = m /\ l.kind \in kinds)
    IN  [j \in 1..Len(ls) |-> ls[j].kind]
Has(m, kind) == \E j \in 1..Len(out) : out[j].rec = m /\ out[j].kind = kind

IdentityKinds == {"Name", "Slack user", "Country", "Hobby", "Affiliations"}
SequenceKinds == {"DNA (FASTA header)", "Length", "First bases", "preview",
                  "GC content"}
DiagnosticKinds == {"skip", "fetch_error", "fetch_error_detail"}

Fetched(m) == \E k \in 1..Len(requests) : requests[k].rec = m
Skipped(m) == m \in Completed /\ ~Fetched(m)
Failed(m) == \E k \in 1..Len(replies) : replies[k].rec = m /\ ~replies[k].ok
Succeeded(m) == \E k \in 1..Len(replies) : replies[k].rec = m /\ replies[k].ok

\* C1: once a run with a loaded table has ended, every record of the table
\* has its progress line and its identity block in the output, record by
\* record in file order.
C1_AllRecordsProcessedInOrder ==
    (Terminated /\ df # None) =>
        /\ \A m \in Members :
              Has(m, "progress") /\ \A kind \in IdentityKinds : Has(m, kind)
        /\ \A j, k \in 1..Len(out) : j < k => out[j].rec <= out[k].rec

\* C2: once a run with a loaded table has ended, the number of efetch calls
\* issued equals the number of records whose URL holds an accession.
C2_OneRetrievalPerAccession ==
    (Terminated /\ df # None) =>
        Len(requests) =
            Cardinality({m \in 1..Len(file.rows) :
                file.rows[m].url # None /\ re_search(file.rows[m].url[1]) # None})

\* C3: after a failed load the run is over, the output is the load diagnostic
\* alone (no header, no progress line, no identity block) and no retrieval
\* has been issued.
C3_FailedLoadProcessesNothing ==
    (pc # "start" /\ ~file.readable) =>
        /\ pc = "done"
        /\ df = None
        /\ Len(out) = 1 /\ out[1].kind = "csv_error"
        /\ requests = <<>>

C3_Witness == pc = "done" /\ ~file.readable /\ Len(out) = 1

\* C4: the range parse_url returns has start and end both present or both
\* absent.
C4_RangeBothOrNeither ==
    (ret # None /\ ret[1].exc = "") =>
        (ret[1].start = None <=> ret[1].end = None)

\* C5: parse_url raises no exception, whatever the URL string.
C5_ParseUrlNeverRaises == ret # None => ret[1].exc = ""

\* C6: an efetch call carries seq_start and seq_stop exactly when parse_url
\* returned both a start and an end for the record's URL, and then with those
\* values; the report of a fetched record gives the length of the sequence as
\* the remote service sent it.
C6_RangeRequestedServerSide ==
    /\ \A k \in 1..Len(requests) :
          LET args == requests[k].args
              parsed == parse_url(df[1].rows[requests[k].rec].url)
              ranged == parsed.start # None /\ parsed.end # None
          IN  /\ "seq_start" \in DOMAIN args <=> ranged
              /\ "seq_stop" \in DOMAIN args <=> ranged
              /\ ranged => args.seq_start = parsed.start /\ args.seq_stop = parsed.end
    /\ \A k \in 1..Len(replies) :
          (replies[k].ok /\ replies[k].rec \in Completed) =>
              \E j \in 1..Len(out) :
                 /\ out[j].rec = replies[k].rec
                 /\ out[j].kind = "Length"
                 /\ out[j].num = Len(replies[k].seq)

C6_Witness ==
    /\ pc = "done"
    /\ \E k \in 1..Len(requests) :
          /\ "seq_start" \in DOMAIN requests[k].args
          /\ requests[k].args.seq_start = Some(5)
          /\ requests[k].args.seq_stop = Some(15)
    /\ \E k \in 1..Len(requests) :
          /\ "seq_start" \notin DOMAIN requests[k].args
          /\ parse_url(df[1].rows[requests[k].rec].url).start = Some(5)

\* C7 (as stated): a record whose fetch was skipped or failed has none of the
\* sequence lines and one diagnostic line; a record whose fetch succeeded has
\* all the sequence lines and no diagnostic.
C7_OneLineDiagnostic ==
    \A m \in Completed :
        /\ (Skipped(m) \/ Failed(m)) =>
              /\ KindsOf(m, SequenceKinds) = <<>>
              /\ Len(KindsOf(m, DiagnosticKinds)) = 1
        /\ Succeeded(m) =>
              /\ \A kind \in SequenceKinds : Has(m, kind)
              /\ KindsOf(m, DiagnosticKinds) = <<>>

\* C7 (amended): a record whose fetch was skipped has none of the sequence
\* lines and the one-line skip diagnostic; a record whose fetch failed has
\* none of the sequence lines and the two lines of the fetch diagnostic; a
\* record whose fetch succeeded has all the sequence lines, once each and in
\* order, and no diagnostic.
C7_DiagnosticInsteadOfSequence ==
    \A m \in Completed :
        /\ Skipped(m) =>
              /\ KindsOf(m, SequenceKinds) = <<>>
              /\ KindsOf(m, DiagnosticKinds) = <<"skip">>
        /\ Failed(m) =>
              /\ KindsOf(m, SequenceKinds) = <<>>
              /\ KindsOf(m, DiagnosticKinds) = <<"fetch_error", "fetch_error_detail">>
        /\ Succeeded(m) =>
              /\ KindsOf(m, SequenceKinds) =
                    <<"DNA (FASTA header)", "Length", "First bases", "preview",
                      "GC content">>
              /\ KindsOf(m, DiagnosticKinds) = <<>>

C7_Witness ==
    /\ pc = "done"
    /\ \E m \in Completed : Failed(m)
    /\ \E m \in Completed : Skipped(m) \/ Succeeded(m)

\* C8: gc_content(s) is 100 * (number of G, g, C, c in s) / len(s), lies
\* between 0 and 100, and is exactly 0 on the empty string.
GcCount(s) == Cardinality({k \in 1..Len(s) : s[k] \in {"G", "g", "C", "c"}})
C8_GcContent ==
    ret # None =>
        /\ ret[1].den > 0
        /\ Len(arg) = 0 => ret[1].num = 0
        /\ Len(arg) > 0 => ret[1].num * Len(arg) = 100 * GcCount(arg) * ret[1].den
        /\ 0 <= ret[1].num /\ ret[1].num <= 100 * ret[1].den

C8_Witness ==
    /\ arg = <<"g", "c", "A", "t">>
    /\ ret # None
    /\ 2 * ret[1].num = 100 * ret[1].den

\* C9: the preview of a sequence of length L is its first min(L, 60)
\* characters, followed by one truncation marker when L > 60 and by nothing
\* when L <= 60.
C9_Preview ==
    ret # None =>
        LET L == Len(arg)
            shown == IF L < preview_len THEN L ELSE preview_len
        IN  /\ \A k \in 1..shown : ret[1][k] = arg[k]
            /\ L > preview_len =>
                  Len(ret[1]) = shown + 1 /\ ret[1][shown + 1] = Ellipsis
            /\ L <= preview_len => Len(ret[1]) = shown

C9_Witness ==
    ret # None /\ Len(arg) = 100 /\ Len(ret[1]) = 61 /\ ret[1][61] = Ellipsis

\* C10: each contact link of a record is printed as the cell's text when the
\* column exists and the cell is filled in, and as N/A otherwise.
Shown(cell) == IF cell = None THEN <<"N/A">> ELSE <<cell[1]>>
C10_ContactPlaceholder ==
    \A j \in 1..Len(out) :
        /\ out[j].kind = "GitHub URL" =>
              out[j].text = Shown(file.rows[out[j].rec].github_url)
        /\ out[j].kind = "LinkedIn URL" =>
              out[j].text = Shown(file.rows[out[j].rec].linkedin_url)

====
